---- MODULE Spec2Model ----
(***************************************************************************)
(* Token acquisition and caching of the BLE Tag Tracker backend            *)
(* (src/backend/app.py): the process-wide token_cache, the /api/token      *)
(* handler get_token() and the /api/health handler health_check(), run by  *)
(* concurrently scheduled request threads.  A thread may be preempted      *)
(* between any two accesses to token_cache, so every access to the cache   *)
(* is a step of its own; what a handler does between two accesses touches  *)
(* only its own frame and is part of the step of the later access.  The    *)
(* threads are interchangeable, so the state holds the bag of the frames   *)
(* of the running handlers.  The clock matters only where the code reads   *)
(* it, so it advances only when some handler is about to read it.          *)
(*                                                                         *)
(* Time is counted in clock ticks, TicksPerSecond ticks to the second, so  *)
(* that datetime values carry a sub-second part and int(total_seconds())   *)
(* truncates.                                                              *)
(***************************************************************************)
EXTENDS Integers, Sequences, FiniteSets, Bags, TLC

\* ---------------------------------------------------------------- bounds
NumThreads == 2
MaxCalls == 3
MaxTicks == 2
TicksPerSecond == 2

\* ------------------------------------------------------ program constants
SafetyMarginSeconds == 300
DefaultExpiresIn == 3600
HTTP_OK == 200
HTTP_INTERNAL_ERROR == 500

\* ------------------------------------------------- Python / JSON values
PyNone == [type |-> "NoneType", i |-> 0, s |-> ""]
PyStr(x) == [type |-> "str", i |-> 0, s |-> x]
PyInt(n) == [type |-> "int", i |-> n, s |-> ""]
DateTime(t) == [type |-> "datetime", i |-> t, s |-> ""]

\* Python truth value of a value used as a condition.
Truthy(v) ==
    CASE v.type = "NoneType" -> FALSE
      [] v.type = "str" -> v.s # ""
      [] v.type = "int" -> v.i # 0
      [] OTHER -> TRUE

\* timedelta(seconds=n) and timedelta(minutes=5), in ticks.
TimedeltaSeconds(n) == n * TicksPerSecond
SafetyMargin == TimedeltaSeconds(SafetyMarginSeconds)

\* IntTotalSeconds rounding up, as math.ceil would.
CeilTotalSeconds(d) == -((-d) \div TicksPerSecond)

\* int(td.total_seconds()): truncation toward zero of a tick difference.
IntTotalSeconds(d) ==
    IF d >= 0 THEN d \div TicksPerSecond ELSE -((-d) \div TicksPerSecond)

\* datetime.isoformat(): the whole seconds and the sub-second part.
IsoFormat(dt) == <<dt.i \div TicksPerSecond, dt.i % TicksPerSecond>>

\* -------------------------------------------- identity provider responses
\* A JSON object body: each key is absent (<<>>) or present with a value.
Object(tok, exp) == [shape |-> "object", access_token |-> tok, expires_in |-> exp]
NotJson == [shape |-> "notjson", access_token |-> <<>>, expires_in |-> <<>>]
JsonArray == [shape |-> "array", access_token |-> <<>>, expires_in |-> <<>>]

\* The bodies the provider is taken to send with status 200: the token
\* "abc123" with every kind of expires_in (absent, long, null), a second,
\* short-lived token, and bodies whose access_token is absent, empty or null.
ExpiresInFields == {<<>>, <<PyInt(1200)>>, <<PyNone>>}

ObjectBodies ==
    {Object(<<PyStr("abc123")>>, e) : e \in ExpiresInFields}
    \cup {Object(<<PyStr("tokB")>>, <<PyInt(60)>>)}
    \cup {Object(a, <<PyInt(1200)>>) : a \in {<<>>, <<PyStr("")>>, <<PyNone>>}}

Transport == [kind |-> "raise", status |-> 0, text |-> "", body |-> NotJson]
Http(st, txt, b) == [kind |-> "http", status |-> st, text |-> txt, body |-> b]
NoResponse == [kind |-> "none", status |-> 0, text |-> "", body |-> NotJson]

ProviderResponses ==
    {Transport}
    \cup {Http(401, "invalid_client", NotJson)}
    \cup {Http(HTTP_OK, "", b) : b \in ObjectBodies \cup {NotJson, JsonArray}}

\* --------------------------------------------------- responses to callers
NoRet == [kind |-> "none"]
HitResult(tok, n) ==
    [kind |-> "token", status |-> HTTP_OK, success |-> TRUE,
     access_token |-> tok, expires_in |-> PyInt(n), cached |-> TRUE]
FreshResult(tok, e) ==
    [kind |-> "token", status |-> HTTP_OK, success |-> TRUE,
     access_token |-> tok, expires_in |-> e, cached |-> FALSE]
\* RejectedResult with the provider's status replaced by 500.
RejectedResultAs500(r) ==
    [kind |-> "rejected", status |-> HTTP_INTERNAL_ERROR, success |-> FALSE,
     error |-> <<"Token request failed: ", r.status>>, detail |-> r.text]

RejectedResult(r) ==
    [kind |-> "rejected", status |-> r.status, success |-> FALSE,
     error |-> <<"Token request failed: ", r.status>>, detail |-> r.text]
InternalError ==
    [kind |-> "error", status |-> HTTP_INTERNAL_ERROR, success |-> FALSE,
     error |-> "Internal server error"]
HealthResult(cached, exp) ==
    [kind |-> "health", status |-> HTTP_OK, health |-> "healthy",
     token_cached |-> cached, token_expires_at |-> exp]

\* ------------------------------------------------------------------ state
VARIABLES
    token_cache,   \* the module-level dict: token, expires_at
    now,           \* the wall clock, in ticks
    ticks,         \* how many times the clock has advanced
    calls,         \* how many requests have been accepted
    frames,        \* the bag of the frames of the running handlers
    belongs,       \* history: the expiry instant of the token now in the
                   \* cache: the instant it arrived plus its stated lifetime,
                   \* then the expires_at its own fetch stored (<<>>: none)
    credentials    \* CLIENT_ID, CLIENT_SECRET, OAUTH_USERNAME, OAUTH_PASSWORD
                   \* as os.getenv returned them on lines 23-26

vars == <<token_cache, now, ticks, calls, frames, belongs, credentials>>

\* A handler's frame:
\*   pc    the line it is about to execute ("done": it is returning)
\*   chk   datetime.now() as read on line 88 (<<>>: not read)
\*   tok   token_cache['token'] as read on line 91 / 160
\*   resp  the provider's response to its request
\*   reqs  the provider requests it has issued
\*   ret   the response it returns
\*   own   history: belongs, as it was when line 91 read the token
NewFrame(l) ==
    [pc |-> l, chk |-> <<>>, tok |-> PyNone, resp |-> NoResponse,
     reqs |-> 0, ret |-> NoRet, own |-> <<>>]

\* lines 23-26: os.getenv gives None for a variable that is not set, and the
\* string it holds otherwise, which may be empty.
CredentialNames == {"CLIENT_ID", "CLIENT_SECRET", "OAUTH_USERNAME", "OAUTH_PASSWORD"}
CredentialValues == {PyNone, PyStr(""), PyStr("set")}

\* Started with any() in the place of all().
StartedWithAny == \E c \in CredentialNames : Truthy(credentials[c])

\* lines 38-39: the module raises ValueError unless all four are truthy, so
\* the module is never loaded and app never serves a request.
Started == \A c \in CredentialNames : Truthy(credentials[c])

Init ==
    /\ credentials \in [CredentialNames -> CredentialValues]
    /\ token_cache = [token |-> PyNone, expires_at |-> PyNone]
    /\ now = 0
    /\ ticks = 0
    /\ calls = 0
    /\ frames = EmptyBag
    /\ belongs = <<>>

Running == BagToSet(frames)

\* Sending a response touches nothing shared, so it is taken at once: no
\* other step is taken while a handler is returning.
Returning == \E f \in Running : f.pc = "done"

\* A handler at line l, with frame f, takes a step.
At(f, l) ==
    /\ f \in Running
    /\ f.pc = l
    /\ ~Returning

\* The handler with frame f goes on with frame g.
Step(f, g) == frames' = (frames (-) SetToBag({f})) (+) SetToBag({g})

Goto(f, l) == Step(f, [f EXCEPT !.pc = l])

\* The handler returns response r.
Respond(f, g, r) == Step(f, [g EXCEPT !.pc = "done", !.ret = r])

\* A request arrives and an idle thread starts the handler at line l.
Accept(l) ==
    /\ Started
    /\ ~Returning
    /\ BagCardinality(frames) < NumThreads
    /\ calls < MaxCalls
    /\ calls' = calls + 1
    /\ frames' = frames (+) SetToBag({NewFrame(l)})
    /\ UNCHANGED <<token_cache, now, ticks, belongs, credentials>>

\* The response is sent, the frame is gone and the thread is idle again.
Deliver(f) ==
    /\ f \in Running
    /\ f.pc = "done"
    /\ frames' = frames (-) SetToBag({f})
    /\ UNCHANGED <<token_cache, now, ticks, calls, belongs, credentials>>

\* GET /api/token
InvokeGetToken == Accept("l87")

\* GET /api/health
InvokeHealthCheck == Accept("l160")

\* PostRequest coalesced: a caller that finds a request in flight sends none
\* and goes back to the check to await the result.
PostRequestCoalesced(f) ==
    IF \E h \in Running : h.pc = "l110"
    THEN Step(f, [f EXCEPT !.pc = "l87"])
    ELSE Step(f, [f EXCEPT !.pc = "l110", !.reqs = @ + 1])

\* PostRequest with a retry: the request is sent a second time.
PostRequestTwice(f) ==
    Step(f, [f EXCEPT !.pc = "l110", !.reqs = @ + 2])

\* lines 96-115: the cache is not used; requests.post(TOKEN_URL, ...,
\* timeout=10) sends the request and the thread waits for the answer.
PostRequest(f) ==
    Step(f, [f EXCEPT !.pc = "l110", !.reqs = @ + 1])

\* line 87, left operand: token_cache['token']
CheckToken(f) ==
    /\ At(f, "l87")
    /\ IF Truthy(token_cache.token) THEN Goto(f, "l87b") ELSE PostRequest(f)
    /\ UNCHANGED <<token_cache, now, ticks, calls, belongs, credentials>>

\* line 87, right operand: token_cache['expires_at']
CheckExpiresAt(f) ==
    /\ At(f, "l87b")
    /\ IF Truthy(token_cache.expires_at) THEN Goto(f, "l88") ELSE PostRequest(f)
    /\ UNCHANGED <<token_cache, now, ticks, calls, belongs, credentials>>

\* StillValid with the comparison turned round.
StillValidReversed(n, e) == n > e - SafetyMargin

\* CheckValidity awaiting a refresh: on a stale entry the caller sends no
\* request and goes back to line 87 until some other caller has refreshed it.
CheckValidityAwaitsRefresh(f) ==
    /\ At(f, "l88")
    /\ IF token_cache.expires_at.type # "datetime"
       THEN Respond(f, f, InternalError)
       ELSE IF now < token_cache.expires_at.i - SafetyMargin
       THEN Step(f, [f EXCEPT !.pc = "l91", !.chk = <<now>>])
       ELSE Goto(f, "l87")
    /\ UNCHANGED <<token_cache, now, ticks, calls, belongs, credentials>>

\* The comparison of line 88 on the operands read.
StillValid(n, e) == n < e - SafetyMargin

\* line 88: datetime.now() < token_cache['expires_at'] - timedelta(minutes=5)
\* (TypeError if expires_at is None).
CheckValidity(f) ==
    /\ At(f, "l88")
    /\ IF token_cache.expires_at.type # "datetime"
       THEN Respond(f, f, InternalError)
       ELSE IF StillValid(now, token_cache.expires_at.i)
       THEN Step(f, [f EXCEPT !.pc = "l91", !.chk = <<now>>])
       ELSE PostRequest(f)
    /\ UNCHANGED <<token_cache, now, ticks, calls, belongs, credentials>>

\* line 91: 'access_token': token_cache['token']
ReadToken(f) ==
    /\ At(f, "l91")
    /\ Step(f, [f EXCEPT !.pc = "l92", !.tok = token_cache.token, !.own = belongs])
    /\ UNCHANGED <<token_cache, now, ticks, calls, belongs, credentials>>

\* line 92: int((token_cache['expires_at'] - datetime.now()).total_seconds()),
\* and the return of lines 89-94.
ReturnCached(f) ==
    /\ At(f, "l92")
    /\ IF token_cache.expires_at.type # "datetime"
       THEN Respond(f, f, InternalError)
       ELSE Respond(f, f, HitResult(f.tok,
                                    IntTotalSeconds(token_cache.expires_at.i - now)))
    /\ UNCHANGED <<token_cache, now, ticks, calls, belongs, credentials>>

\* line 122: data.get('expires_in', 3600)
GetExpiresIn(data) ==
    IF data.expires_in = <<>> THEN PyInt(DefaultExpiresIn) ELSE data.expires_in[1]

\* The instant at which a token that arrives now in body data expires.
Lifetime(data) ==
    IF GetExpiresIn(data).type = "int"
    THEN <<now + TimedeltaSeconds(GetExpiresIn(data).i)>>
    ELSE <<>>

\* lines 110-121 and 134-152: requests.post returns response r or raises.  A
\* non-200 answer is passed on; response.json() raises on a body that is not
\* JSON; data['access_token'] raises on a body that is no object (TypeError)
\* or lacks the key (KeyError); otherwise line 121 stores the token:
\*     token_cache['token'] = data['access_token']
ProviderAnswers(f, r) ==
    /\ At(f, "l110")
    /\ LET g == [f EXCEPT !.resp = r]
           data == r.body
       IN IF \/ r.kind = "raise"
             \/ r.status = HTTP_OK /\ data.shape # "object"
             \/ r.status = HTTP_OK /\ data.access_token = <<>>
          THEN /\ Respond(f, g, InternalError)
               /\ UNCHANGED <<token_cache, belongs>>
          ELSE IF r.status # HTTP_OK
          THEN /\ Respond(f, g, RejectedResult(r))
               /\ UNCHANGED <<token_cache, belongs>>
          ELSE /\ token_cache' = [token_cache EXCEPT !.token = data.access_token[1]]
               /\ belongs' = IF data.access_token[1] = token_cache.token
                             THEN belongs ELSE Lifetime(data)
               /\ Step(f, [g EXCEPT !.pc = "l123"])
    /\ UNCHANGED <<now, ticks, calls, credentials>>

\* StoreExpiresAt taking expires_in for minutes: timedelta(minutes=expires_in).
StoreExpiresAtInMinutes(f) ==
    /\ At(f, "l123")
    /\ LET data == f.resp.body
           expires_in == GetExpiresIn(data)
       IN IF expires_in.type # "int"
          THEN /\ Respond(f, f, InternalError)
               /\ UNCHANGED <<token_cache, belongs>>
          ELSE LET at == DateTime(now + TimedeltaSeconds(60 * expires_in.i))
               IN /\ token_cache' = [token_cache EXCEPT !.expires_at = at]
                  /\ belongs' = IF token_cache.token = data.access_token[1]
                                THEN <<at.i>> ELSE belongs
                  /\ Respond(f, f, FreshResult(data.access_token[1], expires_in))
    /\ UNCHANGED <<now, ticks, calls, credentials>>

\* lines 122-133: token_cache['expires_at'] = datetime.now() + timedelta(seconds=expires_in)
\* (TypeError when expires_in is no number) and the return of the fresh token.
StoreExpiresAt(f) ==
    /\ At(f, "l123")
    /\ LET data == f.resp.body
           expires_in == GetExpiresIn(data)
       IN IF expires_in.type # "int"
          THEN /\ Respond(f, f, InternalError)
               /\ UNCHANGED <<token_cache, belongs>>
          ELSE LET at == DateTime(now + TimedeltaSeconds(expires_in.i))
               IN /\ token_cache' = [token_cache EXCEPT !.expires_at = at]
                  /\ belongs' = IF token_cache.token = data.access_token[1]
                                THEN <<at.i>> ELSE belongs
                  /\ Respond(f, f, FreshResult(data.access_token[1], expires_in))
    /\ UNCHANGED <<now, ticks, calls, credentials>>

\* line 160: token_cache['token'] is not None
HealthReadToken(f) ==
    /\ At(f, "l160")
    /\ Step(f, [f EXCEPT !.pc = "l161", !.tok = token_cache.token])
    /\ UNCHANGED <<token_cache, now, ticks, calls, belongs, credentials>>

\* HealthReturn without the guard: isoformat() on None raises, and the
\* handler, which has no try, answers 500.
HealthReturnUnguarded(f) ==
    /\ At(f, "l161")
    /\ IF token_cache.expires_at.type # "datetime"
       THEN Respond(f, f, InternalError)
       ELSE Respond(f, f, HealthResult(f.tok.type # "NoneType",
                                       <<IsoFormat(token_cache.expires_at)>>))
    /\ UNCHANGED <<token_cache, now, ticks, calls, belongs, credentials>>

\* line 161: token_cache['expires_at'].isoformat() if token_cache['expires_at'] else None
HealthReturn(f) ==
    /\ At(f, "l161")
    /\ Respond(f, f, HealthResult(f.tok.type # "NoneType",
                                  IF Truthy(token_cache.expires_at)
                                  THEN <<IsoFormat(token_cache.expires_at)>>
                                  ELSE <<>>))
    /\ UNCHANGED <<token_cache, now, ticks, calls, belongs, credentials>>

\* Time passes: a tick (a fraction of a second), 100 s or 1000 s.  The
\* clock is read on lines 88, 92 and 123 only.
TickSteps == {1, TimedeltaSeconds(100), TimedeltaSeconds(1000)}
ReadsClock(f) == f.pc \in {"l88", "l92", "l123"}

Tick(d) ==
    /\ ~Returning
    /\ ticks < MaxTicks
    /\ \E f \in Running : ReadsClock(f)
    /\ ticks' = ticks + 1
    /\ now' = now + d
    /\ UNCHANGED <<token_cache, calls, frames, belongs, credentials>>

Next ==
    \/ InvokeGetToken
    \/ InvokeHealthCheck
    \/ \E f \in Running : CheckToken(f)
    \/ \E f \in Running : CheckExpiresAt(f)
    \/ \E f \in Running : CheckValidity(f)
    \/ \E f \in Running : ReadToken(f)
    \/ \E f \in Running : ReturnCached(f)
    \/ \E f \in Running, r \in ProviderResponses : ProviderAnswers(f, r)
    \/ \E f \in Running : StoreExpiresAt(f)
    \/ \E f \in Running : HealthReadToken(f)
    \/ \E f \in Running : HealthReturn(f)
    \/ \E f \in Running : Deliver(f)
    \/ \E d \in TickSteps : Tick(d)

Spec == Init /\ [][Next]_vars

\* A step of some running handler.  Each request is served by a thread of
\* its own, which the interpreter schedules again and again, and
\* requests.post returns or raises (timeout=10): as long as a handler is
\* running, some handler takes its next step.
HandlerStep ==
    \E f \in Running :
        \/ CheckToken(f) \/ CheckExpiresAt(f) \/ CheckValidity(f)
        \/ ReadToken(f) \/ ReturnCached(f)
        \/ \E r \in ProviderResponses : ProviderAnswers(f, r)
        \/ StoreExpiresAt(f)
        \/ HealthReadToken(f) \/ HealthReturn(f)
        \/ Deliver(f)

FairSpec == Spec /\ WF_vars(HandlerStep)

\* ------------------------------------------------------------- vocabulary
\* The frames of the handlers that are returning a response.
Done == {f \in Running : f.pc = "done"}

\* In this step the handler with frame f goes on with frame g.
Took(f, g) ==
    /\ f \in Running
    /\ f # g
    /\ frames' = (frames (-) SetToBag({f})) (+) SetToBag({g})

\* The entry states of section 4.1: Absent, Valid, Stale.
MarginTicks == SafetyMarginSeconds * TicksPerSecond
CacheAbsent == token_cache.token.type = "NoneType"
CacheValid ==
    /\ token_cache.token.type = "str" /\ token_cache.token.s # ""
    /\ token_cache.expires_at.type = "datetime"
    /\ now < token_cache.expires_at.i - MarginTicks
CacheStale ==
    /\ token_cache.expires_at.type = "datetime"
    /\ now >= token_cache.expires_at.i - MarginTicks

IsHit(f) == f.pc = "done" /\ f.ret.kind = "token" /\ f.ret.cached
IsFresh(f) == f.pc = "done" /\ f.ret.kind = "token" /\ ~f.ret.cached

\* ---------------------------------------------------------------- claims

\* C1: a response with cached: true is only produced for a usable token: the
\* returned token is a non-empty string, and the expiry instant that belongs
\* to it (its own fetch's expires_at, or its arrival plus its stated
\* lifetime) is more than the safety margin away.  A token whose lifetime the
\* provider did not state is given the benefit of the doubt, and the instant
\* is taken as the clock value the call's own validity check read on line
\* 88: both are the readings most favourable to the code, and the claim as
\* worded (at the later instant of the response) holds only if this does.
C1_CachedOnlyIfUsable ==
    \A f \in Done :
        IsHit(f) =>
            /\ f.ret.access_token.type = "str" /\ f.ret.access_token.s # ""
            /\ f.own # <<>> => f.chk[1] < f.own[1] - MarginTicks

\* What the provider's response means to get_token.
Rejected(r) == r.kind = "http" /\ r.status # 200
Failure(r) ==
    \/ r.kind = "raise"
    \/ /\ r.kind = "http" /\ r.status = 200
       /\ \/ r.body.shape # "object"
          \/ r.body.access_token = <<>>
          \/ r.body.expires_in # <<>> /\ r.body.expires_in[1].type # "int"
Success(r) == r.kind = "http" /\ r.status = 200 /\ ~Failure(r)
StatedExpiresIn(r) ==
    IF r.body.expires_in = <<>> THEN 3600 ELSE r.body.expires_in[1].i

CheckPcs == {"l87", "l87b", "l88"}

\* C2: while the cache holds a valid entry (a token, and now < expiresAt - 5
\* minutes) a call's validity check never turns to the provider; a call that
\* has passed the check returns success: true, cached: true with the token it
\* reads from the cache and status 200, has issued no provider request, and
\* none of its steps changes token or expires_at.
C2_ValidCacheIsHit ==
    [][\A f \in Running : \A g \in BagToSet(frames') : Took(f, g) =>
          /\ (f.pc \in CheckPcs /\ CacheValid) =>
                 /\ g.pc \in {"l87b", "l88", "l91"}
                 /\ g.reqs = 0
                 /\ token_cache' = token_cache
          /\ f.pc = "l91" =>
                 /\ g.pc = "l92"
                 /\ g.tok = token_cache.token
                 /\ g.reqs = 0
                 /\ token_cache' = token_cache
          /\ f.pc = "l92" =>
                 /\ g.pc = "done"
                 /\ g.ret.kind = "token" /\ g.ret.status = 200
                 /\ g.ret.success /\ g.ret.cached
                 /\ g.ret.access_token = f.tok
                 /\ g.reqs = 0
                 /\ token_cache' = token_cache]_vars

\* C2 witness: a cache hit is being returned from a valid entry.
C2_Witness ==
    \E f \in Done :
        /\ IsHit(f) /\ f.reqs = 0
        /\ CacheValid /\ f.ret.access_token = token_cache.token

\* C3: a call whose check finds the cache absent (no token, or no
\* expires_at) or stale (now >= expiresAt - 5 minutes) sends a request to the
\* provider; a call never sends a second one; and when the provider answers
\* with success the token and the expires_at of that answer are stored and
\* the response has cached: false.
C3_MissFetchesOnce ==
    [][\A f \in Running : \A g \in BagToSet(frames') : Took(f, g) =>
          /\ (f.pc = "l87" /\ (CacheAbsent \/ token_cache.token.s = "")) =>
                 g.pc = "l110" /\ g.reqs = 1
          /\ (f.pc = "l87b" /\ token_cache.expires_at.type = "NoneType") =>
                 g.pc = "l110" /\ g.reqs = 1
          /\ (f.pc = "l88" /\ CacheStale) =>
                 g.pc = "l110" /\ g.reqs = 1
          /\ f.pc \in {"l110", "l123"} =>
                 g.pc \in {"l123", "done"} /\ g.reqs = 1
          /\ (f.pc = "l110" /\ Success(g.resp)) =>
                 /\ g.pc = "l123"
                 /\ token_cache'.token = g.resp.body.access_token[1]
          /\ (f.pc = "l123" /\ Success(f.resp)) =>
                 /\ g.pc = "done"
                 /\ g.ret.kind = "token" /\ g.ret.success /\ ~g.ret.cached
                 /\ g.ret.access_token = f.resp.body.access_token[1]
                 /\ token_cache'.expires_at.type = "datetime"
                 /\ token_cache'.expires_at.i =
                        now + StatedExpiresIn(f.resp) * TicksPerSecond]_vars

\* C3 witness: a fetch that sent one request is replacing a stale entry; it
\* has stored its token and is about to store its expires_at.
C3_Witness ==
    \E f \in Running :
        /\ f.pc = "l123" /\ f.reqs = 1 /\ Success(f.resp)
        /\ token_cache.token = f.resp.body.access_token[1]
        /\ CacheStale

\* C4: a call does not write the cache before its request is answered, and
\* on an answer whose status is not 200 it leaves token and expires_at as
\* they are and returns success: false with the provider's status and the
\* provider's raw body as detail.
C4_RejectionKeepsCache ==
    [][\A f \in Running : \A g \in BagToSet(frames') : Took(f, g) =>
          /\ f.pc \in CheckPcs => token_cache' = token_cache
          /\ (f.pc = "l110" /\ Rejected(g.resp)) =>
                 /\ token_cache' = token_cache
                 /\ g.pc = "done"
                 /\ ~g.ret.success
                 /\ g.ret.status = g.resp.status
                 /\ g.ret.detail = g.resp.text
                 /\ g.ret.error = <<"Token request failed: ", g.resp.status>>]_vars

\* C4 witness: a 401 is being passed on while the cache holds a stale entry.
C4_Witness ==
    \E f \in Done :
        /\ f.ret.kind = "rejected" /\ f.ret.status = 401
        /\ f.ret.detail = "invalid_client"
        /\ token_cache.token.type = "str" /\ CacheStale

\* C5: a call whose provider request fails in transport or parsing (an
\* exception of requests.post, or a 200 whose body is not JSON, is no
\* object, lacks access_token or carries an expires_in that is no number)
\* changes neither token nor expires_at, and returns status 500 with the
\* error "Internal server error".
C5_FailureKeepsCache ==
    [][\A f \in Running : \A g \in BagToSet(frames') :
          (Took(f, g) /\ f.pc \in {"l110", "l123"} /\ Failure(g.resp)) =>
              /\ token_cache' = token_cache
              /\ g.pc = "done" =>
                     /\ g.ret.status = 500 /\ ~g.ret.success
                     /\ g.ret.error = "Internal server error"]_vars

\* C6 as claimed: whatever expires_in the provider states, the entry is
\* Valid (now < expiresAt - 5 minutes) as soon as a fetch has stored it.
C6_FetchMakesValid ==
    \A f \in Done :
        IsFresh(f) =>
            /\ token_cache.expires_at.type = "datetime"
            /\ now < token_cache.expires_at.i - MarginTicks

\* C6 as amended: as soon as a fetch has stored its expires_at, the entry
\* satisfies now < expiresAt - 5 minutes if and only if the expires_in of
\* the answer (3600 when absent) is more than 300 seconds.
C6_FetchValidIffLong ==
    \A f \in Done :
        IsFresh(f) =>
            /\ token_cache.expires_at.type = "datetime"
            /\ now < token_cache.expires_at.i - MarginTicks
                   <=> f.ret.expires_in.i > SafetyMarginSeconds

\* C6 witness: a fetch has stored an entry with expires_in = 60, Stale at once.
C6_Witness ==
    \E f \in Done :
        /\ IsFresh(f) /\ f.ret.expires_in.i = 60
        /\ CacheStale

\* C7: once a call has stored a token the cache is never absent again: no
\* step takes token from a non-empty string back to None.
C7_NeverDeleted ==
    [][(token_cache.token.type = "str" /\ token_cache.token.s # "")
           => token_cache'.token.type # "NoneType"]_vars

C9_HealthReportsFetch ==
    \A f \in Done :
        /\ (/\ f.ret.kind = "health"
            /\ token_cache.expires_at.type = "NoneType"
            /\ \A h \in Running : h.pc # "l123") =>
               /\ ~f.ret.token_cached
               /\ f.ret.token_expires_at = <<>>
        /\ IsFresh(f) =>
               /\ token_cache.expires_at.type = "datetime"
               /\ token_cache.expires_at.i =
                      now + StatedExpiresIn(f.resp) * TicksPerSecond
        /\ (/\ f.ret.kind = "health"
            /\ token_cache.expires_at.type = "datetime"
            /\ \A h \in Running : h.pc # "l123") =>
               /\ f.ret.token_cached
               /\ f.ret.token_expires_at =
                      << <<token_cache.expires_at.i \div TicksPerSecond,
                           token_cache.expires_at.i % TicksPerSecond>> >>

\* C10: health_check is a pure read that never fails: its steps change
\* neither token nor expires_at, it sends no provider request, and it
\* returns status 200 in every state of the cache.
C10_HealthIsPureRead ==
    [][\A f \in Running : \A g \in BagToSet(frames') : Took(f, g) =>
          /\ f.pc = "l160" =>
                 /\ g.pc = "l161"
                 /\ g.reqs = 0
                 /\ token_cache' = token_cache
          /\ f.pc = "l161" =>
                 /\ g.pc = "done"
                 /\ g.ret.kind = "health" /\ g.ret.status = 200
                 /\ g.reqs = 0
                 /\ token_cache' = token_cache]_vars

\* C10 witness: health_check answers while the cache is absent and a fetch
\* is in flight.
C10_Witness ==
    \E f \in Done :
        /\ f.ret.kind = "health" /\ f.ret.status = 200
        /\ CacheAbsent
        /\ \E h \in Running : h.pc = "l110"

\* C13: when one of the four required credentials is missing (None) or
\* empty at startup, no get_token or health_check request is ever served,
\* no provider request is ever issued and the cache is never written.
C13_RefusesToStart ==
    (\E c \in CredentialNames :
         credentials[c].type = "NoneType" \/ credentials[c].s = "") =>
        /\ calls = 0
        /\ frames = EmptyBag
        /\ token_cache = [token |-> PyNone, expires_at |-> PyNone]

\* C13 witness: CLIENT_SECRET is empty, the other three are set, and nothing
\* is served.
C13_Witness ==
    /\ credentials["CLIENT_SECRET"] = PyStr("")
    /\ \A c \in CredentialNames \ {"CLIENT_SECRET"} : credentials[c] = PyStr("set")
    /\ calls = 0 /\ frames = EmptyBag

\* The number of provider requests in flight among the frames of bag b.
InFlight(b) ==
    LET S == {h \in BagToSet(b) : h.pc = "l110"}
    IN BagCardinality([h \in S |-> b[h]])

\* The check of the call with frame f finds the cache absent or stale.
MissAt(f) ==
    \/ f.pc = "l87" /\ (CacheAbsent \/ token_cache.token.s = "")
    \/ f.pc = "l87b" /\ token_cache.expires_at.type = "NoneType"
    \/ f.pc = "l88" /\ CacheStale

\* C11: callers are not coalesced.  Every caller whose check finds the cache
\* absent or stale sends a request of its own, however many requests are in
\* flight already, so the requests in flight grow by one with each such
\* caller; an answer ends the request of its own caller only; and a caller
\* whose fetch succeeds returns cached: false with the token of its own
\* answer, whatever the other callers have stored meanwhile.
C11_NoCoalescing ==
    [][\A f \in Running : \A g \in BagToSet(frames') : Took(f, g) =>
          /\ MissAt(f) =>
                 /\ g.pc = "l110" /\ g.reqs = 1
                 /\ InFlight(frames') = InFlight(frames) + 1
          /\ f.pc = "l110" =>
                 /\ g.reqs = 1
                 /\ InFlight(frames') = InFlight(frames) - 1
          /\ (f.pc = "l123" /\ g.ret.kind = "token") =>
                 /\ ~g.ret.cached
                 /\ g.ret.access_token = f.resp.body.access_token[1]]_vars

\* C11 witness: two fetches overlap; one returns its own token while the
\* cache already holds the token of the other, which has not finished.
C11_Witness ==
    \E f \in Done :
        /\ IsFresh(f) /\ f.reqs = 1
        /\ f.ret.access_token # token_cache.token
        /\ \E h \in Running :
               /\ h.pc = "l123" /\ h.reqs = 1
               /\ h.resp.body.access_token[1] = token_cache.token

\* C12: with handlers that keep being scheduled and a provider call that
\* answers or times out, every call is answered: whenever calls are being
\* served, a state follows in which all of them have returned their response
\* and are gone; and whenever a provider request is in flight, a caller that
\* sent one request returns a success, a provider rejection or an internal
\* error.
C12_EveryCallCompletes ==
    /\ (frames # EmptyBag) ~> (frames = EmptyBag)
    /\ (InFlight(frames) > 0) ~>
           (\E f \in Done : /\ f.reqs = 1
                            /\ f.ret.kind \in {"token", "rejected", "error"})

\* C12 witness: a call whose provider request timed out is returning the
\* internal error while another request is still in flight.
C12_Witness ==
    \E f \in Done :
        /\ f.reqs = 1 /\ f.resp.kind = "raise"
        /\ f.ret.kind = "error" /\ f.ret.status = 500
        /\ InFlight(frames) > 0

\* C14: every response of health_check is self-consistent: it reports
\* token_cached: true if and only if it reports a token_expires_at that is
\* not null.
C14_HealthSelfConsistent ==
    \A f \in Done :
        f.ret.kind = "health" =>
            (f.ret.token_cached <=> f.ret.token_expires_at # <<>>)

\* C15: the token and the expires_at in the cache, and the access_token and
\* the expires_in of a cached: true response, come from one provider
\* answer.  Stated for the token "tokB", which the provider issues in one
\* answer only, the one that states expires_in = 60: an expires_at stored for
\* it lies at most 60 s ahead, and so does the expires_in returned with it.
\* The states in which a fetch is between its two stores are left out.
C15_PairFromOneResponse ==
    /\ \A f \in Done :
           (IsHit(f) /\ f.ret.access_token = PyStr("tokB")) =>
               f.ret.expires_in.i <= 60
    /\ (/\ token_cache.token = PyStr("tokB")
        /\ token_cache.expires_at.type = "datetime"
        /\ \A h \in Running : h.pc # "l123") =>
           token_cache.expires_at.i <= now + 60 * TicksPerSecond

\* C16: every cached: true response reports expires_in > 300.  Stated for
\* the responses most favourable to the code: the clock and expires_at are
\* on whole seconds, and no time has passed between the validity check of
\* line 88 and the computation of line 92.
C16_HitAboveMargin ==
    \A f \in Done :
        (/\ IsHit(f)
         /\ f.chk = <<now>>
         /\ now % TicksPerSecond = 0
         /\ token_cache.expires_at.i % TicksPerSecond = 0) =>
            f.ret.expires_in.i > SafetyMarginSeconds

\* C17: every success: true response of get_token carries an access_token
\* that is a non-empty string, and an access_token that is null or empty is
\* never stored: the cache never holds the empty string, and holds None only
\* as long as it holds no expires_at either.
C17_SuccessHasToken ==
    /\ \A f \in Done :
           f.ret.kind = "token" =>
               /\ f.ret.access_token.type = "str"
               /\ f.ret.access_token.s # ""
    /\ token_cache.token # PyStr("")
    /\ token_cache.token = PyNone => token_cache.expires_at = PyNone

====
